---- MODULE Spec2Model ----
(***************************************************************************)
(* Model of forest-express-sequelize:                                      *)
(*   - ResourcesGetter (src/services/resources-getter.js, lines 1-206)     *)
(*   - the schema builder (same file, lines 208-461)                       *)
(*                                                                         *)
(* JavaScript strings that the code parses (filter keys, comma-joined      *)
(* values, sort keys, field lists) are sequences of one-character strings, *)
(* so that indexOf / split / replace / concatenation are computed.         *)
(* Strings that are only compared are TLA+ strings.                        *)
(***************************************************************************)
EXTENDS Integers, Sequences, FiniteSets, TLC

\* ------------------------------------------------------------------------
\* Bounds
\* ------------------------------------------------------------------------
MaxRecords == 2        \* findAll returns at most this many records
MaxCount == 2          \* count returns 0..MaxCount
MaxLenBound == 2       \* length-constraint bounds range over 0..MaxLenBound

\* ------------------------------------------------------------------------
\* State
\* ------------------------------------------------------------------------
\* ResourcesGetter
VARIABLES
  params,               \* request parameters
  schema,               \* Interface.Schemas.schemas[model.name]
  model,                \* the ORM model's static metadata
  fieldNamesRequested,  \* computed at construction
  fields,               \* local clone of schema.fields
  associations,         \* local clone of model.associations
  segmentScope,
  segmentWhere,
  pc,                   \* position of perform's promise chain
  countOpts,            \* options handed to count
  findAllOpts,          \* options handed to findAll
  queryScope,           \* scope the two queries were issued under
  getIncludesArgs,      \* field-name lists handed to QueryBuilder.getIncludes
  countState,           \* the count promise
  findAllState,         \* the findAll promise
  result,               \* what perform resolved to
  error,                \* what perform threw or rejected with
  log,                  \* Interface.logger calls
  hookCalls             \* field.search invocations

varsRG == <<params, schema, model, fieldNamesRequested, fields, associations,
            segmentScope, segmentWhere, pc, countOpts, findAllOpts, queryScope,
            getIncludesArgs, countState, findAllState, result, error, log,
            hookCalls>>

\* schema builder
VARIABLES
  sbModel,              \* the model being introspected
  sbFields,             \* `fields` (line 214)
  fieldNamesToExclude,  \* line 215
  columnsDone,          \* columns visited by the first P.each
  associationsDone,     \* associations visited by the second P.each
  sbLog,                \* Interface.logger.error calls
  sbSchema,             \* the schema the builder resolves to
  sbPc

varsSB == <<sbModel, sbFields, fieldNamesToExclude, columnsDone,
            associationsDone, sbLog, sbSchema, sbPc>>

VARIABLES
  gvColumn,             \* a column handed to getValidations
  gvValidations,        \* what getValidations returned
  gvPc

varsGV == <<gvColumn, gvValidations, gvPc>>

vars == <<varsRG, varsSB, varsGV>>

\* ------------------------------------------------------------------------
\* JavaScript values
\* ------------------------------------------------------------------------
Undefined == "undefined"            \* absent plain string
NullStr == <<"undefined">>          \* absent parsed string (character sequence)
NullList == <<NullStr>>             \* absent list of parsed strings

Truthy(s) == s # Undefined /\ s # ""
TruthyStr(s) == s # NullStr /\ Len(s) > 0

\* String.prototype.indexOf(c), 0-based, -1 when absent
RECURSIVE IndexFrom(_, _, _)
IndexFrom(s, c, i) ==
  IF i > Len(s) THEN -1
  ELSE IF s[i] = c THEN i - 1
  ELSE IndexFrom(s, c, i + 1)

indexOf(s, c) == IndexFrom(s, c, 1)

\* String.prototype.split(c): always at least one piece
RECURSIVE split(_, _)
split(s, c) ==
  LET i == indexOf(s, c) IN
  IF i = -1 THEN <<s>>
  ELSE <<SubSeq(s, 1, i)>> \o split(SubSeq(s, i + 2, Len(s)), c)

\* String.prototype.replace(c, d) with a string pattern: first occurrence only
replace(s, c, d) ==
  LET i == indexOf(s, c) IN
  IF i = -1 THEN s
  ELSE SubSeq(s, 1, i) \o d \o SubSeq(s, i + 2, Len(s))

includes(list, x) == \E i \in 1..Len(list) : list[i] = x

\* _.union: unique values, order of first occurrence
RECURSIVE uniq(_)
uniq(list) ==
  IF list = <<>> THEN <<>>
  ELSE LET front == uniq(SubSeq(list, 1, Len(list) - 1))
           last == list[Len(list)]
       IN IF includes(front, last) THEN front ELSE Append(front, last)

union(a, b, c) == uniq(a \o b \o c)

\* _.xor of two lists: values found in exactly one of them
xor(a, b) ==
  LET ua == uniq(a)
      ub == uniq(b)
  IN SelectSeq(ua, LAMBDA x : ~includes(ub, x)) \o
     SelectSeq(ub, LAMBDA x : ~includes(ua, x))

RECURSIVE mapHead(_)
mapHead(list) ==
  IF list = <<>> THEN <<>>
  ELSE <<split(Head(list), ".")[1]>> \o mapHead(Tail(list))

\* ------------------------------------------------------------------------
\* ResourcesGetter: inputs
\* ------------------------------------------------------------------------
NoFilter == <<[key |-> NullStr, values |-> NullStr]>>   \* params.filter absent
NoSegments == <<[name |-> Undefined, scope |-> Undefined,
                 where |-> [kind |-> "undefined", id |-> Undefined]]>>
NoWhere == [kind |-> "undefined", id |-> Undefined]

ParamFields == { NullStr, <<"t">>, <<"t", ",", "a">> }

ParamFilters ==
  { NoFilter,
    <<[key |-> <<"t">>, values |-> <<"1">>]>>,
    <<[key |-> <<"t">>, values |-> <<"1", ",", "2">>]>>,
    <<[key |-> <<"a", ":", "n">>, values |-> <<"1">>]>>,
    <<[key |-> <<"t">>, values |-> <<"1", ",", "2">>],
      [key |-> <<"a", ":", "n">>, values |-> <<"3">>]>>,
    <<[key |-> <<"t">>, values |-> <<"!">>]>> }

ParamFilterTypes == { Undefined, "and", "or" }
ParamSearches == { Undefined, "hello" }
ParamSorts == { NullStr, <<"a", ".", "n">> }

\* (params.segment, schema.segments) pairs
SegmentCases ==
  { [segment |-> Undefined, segments |-> NoSegments],
    [segment |-> Undefined,
     segments |-> <<[name |-> "s", scope |-> "active",
                     where |-> [kind |-> "value", id |-> "w1"]]>>],
    [segment |-> "s", segments |-> NoSegments],
    [segment |-> "s",
     segments |-> <<[name |-> "s", scope |-> "active",
                     where |-> [kind |-> "value", id |-> "w1"]]>>],
    [segment |-> "s",
     segments |-> <<[name |-> "r", scope |-> "active", where |-> NoWhere],
                    [name |-> "s", scope |-> Undefined,
                     where |-> [kind |-> "function", id |-> "fn"]]>>],
    [segment |-> "s",
     segments |-> <<[name |-> "s", scope |-> "active", where |-> NoWhere]>>],
    [segment |-> "ghost",
     segments |-> <<[name |-> "s", scope |-> "active",
                     where |-> [kind |-> "value", id |-> "w1"]]>>] }

\* what a segment's where-function may resolve to
ResolvedWheres == { [kind |-> "value", id |-> "w2"] }

\* field.search of a schema field: absent, or a hook that pushes a clause
\* on options.where.$and, throws, or pushes and then throws
HookKinds == { "none", "mutate", "throw", "mutateThrow" }

SchemaFieldLists ==
  { <<[field |-> <<"t">>, search |-> h1], [field |-> <<"v">>, search |-> h2]>> :
      h1 \in HookKinds, h2 \in HookKinds }

SearchFieldLists == { NullList, <<<<"t">>, <<"z">>, <<"a", ".", "n">>, <<"b", ".", "n">>>> }
PrimaryKeyLists == { <<<<"i">>>>, <<<<"i">>, <<"k">>>> }
ModelAssociations == << <<"a">>, <<"c">> >>

\* ------------------------------------------------------------------------
\* Collaborators (contracts only)
\* ------------------------------------------------------------------------
\* OperatorValueParser.perform(model, key, value, timezone): may throw
parserThrows(value) == includes(value, "!")
OperatorValueParser(key, value, timezone) ==
  [key |-> key, raw |-> value, timezone |-> timezone]

\* SearchBuilder(model, opts, params, fieldNamesRequested).perform()
SearchBuilder(p, fnr) ==
  [kind |-> "search", search |-> p.search, names |-> fnr,
   comb |-> "", conds |-> <<>>, seg |-> NoWhere]

\* QueryBuilder.getIncludes(model, fieldNamesRequested)
getIncludes(assocs, fnr) ==
  IF fnr = NullList THEN assocs
  ELSE SelectSeq(assocs, LAMBDA a : includes(fnr, a))

\* QueryBuilder.getOrder / getSkip / getLimit
getOrder(p) == p.sort
getSkip(p) == p.offset
getLimit(p) == p.limit

\* CompositeKeysManager(model, schema, record).createCompositePrimary()
createCompositePrimary(sch, record) ==
  [j \in 1..Len(sch.primaryKeys) |-> record.pk[j]]

\* schema builder: isCompositePrimary
isCompositePrimaryOf(primaryKeys) == Len(primaryKeys) > 1

\* ------------------------------------------------------------------------
\* ResourcesGetter: functions
\* ------------------------------------------------------------------------
\* associations named by filter keys "<association>:<field>" (lines 25-31)
RECURSIVE filterAssociations(_)
filterAssociations(entries) ==
  IF entries = <<>> \/ entries = NoFilter THEN <<>>
  ELSE LET key == Head(entries).key IN
       (IF indexOf(key, ":") # -1 THEN <<split(key, ":")[1]>> ELSE <<>>)
         \o filterAssociations(Tail(entries))

\* association named by a dotted sort key (lines 33-35)
sortAssociations(p) ==
  IF TruthyStr(p.sort) /\ indexOf(p.sort, ".") # -1
  THEN <<split(p.sort, ".")[1]>> ELSE <<>>

associationsForQuery(p) == filterAssociations(p.filter) \o sortAssociations(p)
\* fieldNamesRequested without the associations of the filter and sort keys
fieldNamesRequestedOf_NoAssociations(p, mdl) ==
  IF ~TruthyStr(p.fields) THEN NullList
  ELSE union(<<mdl.primaryKeys[1]>>, split(p.fields, ","), <<>>)

fieldNamesRequestedOf(p, mdl) ==
  IF ~TruthyStr(p.fields) THEN NullList
  ELSE union(<<mdl.primaryKeys[1]>>, split(p.fields, ","),
             associationsForQuery(p))

\* the where-clause key of a filter key (lines 85-87)
filterKey(key) ==
  IF indexOf(key, ":") # -1
  THEN <<"$">> \o replace(key, ":", <<".">>) \o <<"$">>
  ELSE key

\* one condition per comma-separated value (lines 88-93)
entryConditions(entry, timezone) ==
  LET key == filterKey(entry.key)
      values == split(entry.values, ",")
  IN [j \in 1..Len(values) |->
        [key |-> key, value |-> OperatorValueParser(key, values[j], timezone)]]

RECURSIVE filterConditions(_, _)
filterConditions(entries, timezone) ==
  IF entries = <<>> THEN <<>>
  ELSE entryConditions(Head(entries), timezone)
         \o filterConditions(Tail(entries), timezone)

filterThrows(p) ==
  /\ p.filter # NoFilter
  /\ \E e \in 1..Len(p.filter) :
       LET values == split(p.filter[e].values, ",")
       IN \E j \in 1..Len(values) : parserThrows(values[j])

handleFilterParams(p) ==
  LET conditions == filterConditions(p.filter, p.timezone) IN
  [kind |-> "filter", search |-> Undefined, names |-> NullList,
   comb |-> IF Truthy(p.filterType) THEN "$" \o p.filterType ELSE "",
   conds |-> IF Truthy(p.filterType) THEN conditions ELSE <<>>,
   seg |-> NoWhere]

segmentCondition(segWhere) ==
  [kind |-> "segment", search |-> Undefined, names |-> NullList,
   comb |-> "", conds |-> <<>>, seg |-> segWhere]
\* getWhere without lines 113-115
getWhere_NoSegment(p, fnr, segWhere) ==
  (IF Truthy(p.search) THEN <<SearchBuilder(p, fnr)>> ELSE <<>>)
  \o (IF p.filter # NoFilter THEN <<handleFilterParams(p)>> ELSE <<>>)

getWhere(p, fnr, segWhere) ==
  (IF Truthy(p.search) THEN <<SearchBuilder(p, fnr)>> ELSE <<>>)
  \o (IF p.filter # NoFilter THEN <<handleFilterParams(p)>> ELSE <<>>)
  \o (IF segWhere.kind # "undefined" THEN <<segmentCondition(segWhere)>> ELSE <<>>)

\* selectSearchFields (lines 45-78): narrowed fields, associations, warnings
fieldNames(fs) == [j \in 1..Len(fs) |-> fs[j].field]

selectSearchFields(sch, flds, assocs) ==
  LET searchAssociationFields ==
        SelectSeq(sch.searchFields, LAMBDA f : indexOf(f, ".") # -1)
      searchFields ==
        SelectSeq(sch.searchFields, LAMBDA f : indexOf(f, ".") = -1)
      newFields ==
        SelectSeq(flds, LAMBDA f : includes(sch.searchFields, f.field))
      searchAssociationNames == mapHead(searchAssociationFields)
      newAssociations ==
        SelectSeq(uniq(searchAssociationNames), LAMBDA a : includes(assocs, a))
      fieldsSimpleNotFound == xor(searchFields, fieldNames(newFields))
      fieldsAssociationNotFound == xor(searchAssociationNames, newAssociations)
  IN [fields |-> newFields,
      associations |-> newAssociations,
      warnings |->
        (IF Len(fieldsSimpleNotFound) > 0
         THEN <<[level |-> "warn", about |-> "fields",
                 names |-> fieldsSimpleNotFound]>> ELSE <<>>)
        \o (IF Len(fieldsAssociationNotFound) > 0
            THEN <<[level |-> "warn", about |-> "associations",
                    names |-> fieldsAssociationNotFound]>> ELSE <<>>)]

\* one call field.search(options, params.search)
hookClause(field, term) ==
  [kind |-> "hook", search |-> term, names |-> <<field.field>>,
   comb |-> "", conds |-> <<>>, seg |-> NoWhere]

hookMutates(field) == field.search \in {"mutate", "mutateThrow"}
hookThrows(field) == field.search \in {"throw", "mutateThrow"}

callHook(field, options, term) ==
  IF hookMutates(field)
  THEN [options EXCEPT !.where.and = Append(@, hookClause(field, term))]
  ELSE options
\* the try block with a catch that does not log
searchField_Silent(st, field, term) ==
  IF field.search = "none" THEN st
  ELSE IF hookThrows(field)
  THEN [st EXCEPT !.countOpts = callHook(field, @, term),
                  !.calls = Append(@, [field |-> field.field, on |-> "count"])]
  ELSE [st EXCEPT !.countOpts = callHook(field, @, term),
                  !.findAllOpts = callHook(field, @, term),
                  !.calls = @ \o <<[field |-> field.field, on |-> "count"],
                                   [field |-> field.field, on |-> "findAll"]>>]

\* the try block of one field (lines 141-147)
searchField(st, field, term) ==
  IF field.search = "none" THEN st
  ELSE IF hookThrows(field)
  THEN [st EXCEPT !.countOpts = callHook(field, @, term),
                  !.calls = Append(@, [field |-> field.field, on |-> "count"]),
                  !.log = Append(@, [level |-> "error", about |-> "Smart Field",
                                     names |-> <<field.field>>])]
  ELSE [st EXCEPT !.countOpts = callHook(field, @, term),
                  !.findAllOpts = callHook(field, @, term),
                  !.calls = @ \o <<[field |-> field.field, on |-> "count"],
                                   [field |-> field.field, on |-> "findAll"]>>]

\* _.each(schema.fields, ...) (lines 139-149)
RECURSIVE searchFieldsLoop(_, _, _)
searchFieldsLoop(st, flds, term) ==
  IF flds = <<>> THEN st
  ELSE searchFieldsLoop(searchField(st, Head(flds), term), Tail(flds), term)
\* a join that resolves as soon as one query has succeeded
PAll_Any(c, f) ==
  IF c.status = "ok" \/ f.status = "ok" THEN "resolved"
  ELSE IF c.status = "failed" \/ f.status = "failed" THEN "rejected"
  ELSE "pending"

\* P.all over the two queries (lines 153-161)
PAll(c, f) ==
  IF c.status = "failed" \/ f.status = "failed" THEN "rejected"
  ELSE IF c.status = "ok" /\ f.status = "ok" THEN "resolved"
  ELSE "pending"
\* the spread callback without the isCompositePrimary test
attachComposite_Always(sch, records) ==
  [j \in 1..Len(records) |->
     [records[j] EXCEPT !.forestCompositePrimary =
                          createCompositePrimary(sch, records[j])]]

\* the spread callback (lines 193-202)
attachComposite(sch, records) ==
  IF sch.isCompositePrimary
  THEN [j \in 1..Len(records) |->
          [records[j] EXCEPT !.forestCompositePrimary =
                               createCompositePrimary(sch, records[j])]]
  ELSE records

\* getSegment (lines 165-174): _.find yields undefined for an unknown name,
\* and reading segment.scope of undefined throws a TypeError
segmentDefined(sch, p) ==
  \E j \in 1..Len(sch.segments) : sch.segments[j].name = p.segment

findSegment(sch, p) ==
  LET j == CHOOSE j \in 1..Len(sch.segments) :
             /\ sch.segments[j].name = p.segment
             /\ \A q \in 1..(j - 1) : sch.segments[q].name # p.segment
  IN sch.segments[j]

getSegment(sch, p) ==
  IF sch.segments # NoSegments /\ Truthy(p.segment)
  THEN IF segmentDefined(sch, p)
       THEN [threw |-> FALSE, scope |-> findSegment(sch, p).scope,
             where |-> findSegment(sch, p).where]
       ELSE [threw |-> TRUE, scope |-> Undefined, where |-> NoWhere]
  ELSE [threw |-> FALSE, scope |-> Undefined, where |-> NoWhere]

\* rows handed back by findAll
dbRecord(j, mdl) ==
  [pk |-> [q \in 1..Len(mdl.primaryKeys) |-> 10 * q + j],
   forestCompositePrimary |-> <<>>]

dbRecords(n, mdl) == [j \in 1..n |-> dbRecord(j, mdl)]

\* ------------------------------------------------------------------------
\* ResourcesGetter: state
\* ------------------------------------------------------------------------
NoOpts == [include |-> <<>>, where |-> [and |-> <<>>]]
NoResult == [set |-> FALSE, count |-> 0, records |-> <<>>]
IdleCount == [status |-> "idle", count |-> 0, error |-> Undefined]
IdleFindAll == [status |-> "idle", records |-> <<>>, error |-> Undefined]

hasSearchFields == schema.searchFields # NullList

\* state after `new ResourcesGetter(model, opts, params)` (lines 10-43)
InitRG ==
  /\ params \in
       { [fields |-> f, filter |-> fl, filterType |-> ft, search |-> se,
          sort |-> so, segment |-> sc.segment, timezone |-> "tz",
          offset |-> 0, limit |-> 10] :
           f \in ParamFields, fl \in ParamFilters, ft \in ParamFilterTypes,
           se \in ParamSearches, so \in ParamSorts, sc \in SegmentCases }
  /\ model \in { [name |-> "Article", primaryKeys |-> pk,
                  associations |-> ModelAssociations] : pk \in PrimaryKeyLists }
  /\ schema \in
       { [fields |-> fs, segments |-> sc.segments, searchFields |-> sf,
          primaryKeys |-> model.primaryKeys,
          isCompositePrimary |-> isCompositePrimaryOf(model.primaryKeys)] :
           fs \in SchemaFieldLists, sf \in SearchFieldLists,
           sc \in { c \in SegmentCases : c.segment = params.segment } }
  /\ fieldNamesRequested = fieldNamesRequestedOf(params, model)
  /\ fields = schema.fields
  /\ associations = model.associations
  /\ segmentScope = Undefined
  /\ segmentWhere = NoWhere
  /\ pc = "constructed"
  /\ countOpts = NoOpts
  /\ findAllOpts = NoOpts
  /\ queryScope = Undefined
  /\ getIncludesArgs = <<>>
  /\ countState = IdleCount
  /\ findAllState = IdleFindAll
  /\ result = NoResult
  /\ error = Undefined
  /\ log = <<>>
  /\ hookCalls = <<>>

\* ------------------------------------------------------------------------
\* ResourcesGetter: operations
\* ------------------------------------------------------------------------
\* perform (lines 188-191): getSegment(), then getSegmentCondition()
Perform ==
  /\ pc = "constructed"
  /\ LET seg == getSegment(schema, params) IN
       IF seg.threw
       THEN /\ pc' = "thrown"
            /\ error' = "TypeError"
            /\ UNCHANGED <<segmentScope, segmentWhere>>
       ELSE /\ segmentScope' = seg.scope
            /\ segmentWhere' = seg.where
            /\ pc' = IF seg.where.kind = "function"
                     THEN "awaitSegment" ELSE "segmentReady"
            /\ error' = error
  /\ UNCHANGED <<varsSB, varsGV, params, schema, model, fieldNamesRequested, fields,
                 associations, countOpts, findAllOpts, queryScope,
                 getIncludesArgs, countState, findAllState, result, log,
                 hookCalls>>

\* the promise of segmentWhere(params) resolves (lines 179-182)
SegmentResolved ==
  /\ pc = "awaitSegment"
  /\ \E w \in ResolvedWheres : segmentWhere' = w
  /\ pc' = "segmentReady"
  /\ UNCHANGED <<varsSB, varsGV, params, schema, model, fieldNamesRequested, fields,
                 associations, segmentScope, countOpts, findAllOpts,
                 queryScope, getIncludesArgs, countState, findAllState,
                 result, error, log, hookCalls>>

\* the promise of segmentWhere(params) rejects: perform rejects with it
SegmentRejected ==
  /\ pc = "awaitSegment"
  /\ pc' = "rejected"
  /\ error' = "segmentError"
  /\ UNCHANGED <<varsSB, varsGV, params, schema, model, fieldNamesRequested, fields,
                 associations, segmentScope, segmentWhere, countOpts,
                 findAllOpts, queryScope, getIncludesArgs, countState,
                 findAllState, result, log, hookCalls>>

\* options as built at lines 125-136, before the search hooks
builtOptions(p, mdl, fnr, segWhere) ==
  [countOpts |-> [include |-> getIncludes(mdl.associations, fnr),
                  where |-> [and |-> getWhere(p, fnr, segWhere)]],
   findAllOpts |-> [where |-> [and |-> getWhere(p, fnr, segWhere)],
                    include |-> getIncludes(mdl.associations, fnr),
                    order |-> getOrder(p),
                    offset |-> getSkip(p),
                    limit |-> getLimit(p)]]

\* getAndCountRecords (lines 120-163)
GetAndCountRecords ==
  /\ pc = "segmentReady"
  /\ LET sel == IF hasSearchFields
                THEN selectSearchFields(schema, fields, associations)
                ELSE [fields |-> fields, associations |-> associations,
                      warnings |-> <<>>]
     IN
       /\ fields' = sel.fields
       /\ associations' = sel.associations
       /\ IF filterThrows(params)
          THEN \* the parser throws inside getWhere: the chain rejects
               /\ pc' = "rejected"
               /\ error' = "parseError"
               /\ log' = log \o sel.warnings
               /\ getIncludesArgs' = <<fieldNamesRequested>>
               /\ UNCHANGED <<countOpts, findAllOpts, queryScope, countState,
                              findAllState, hookCalls>>
          ELSE LET built == builtOptions(params, model, fieldNamesRequested,
                                         segmentWhere)
                   st0 == [countOpts |-> built.countOpts,
                           findAllOpts |-> built.findAllOpts,
                           log |-> log \o sel.warnings,
                           calls |-> <<>>]
                   st == IF Truthy(params.search)
                         THEN searchFieldsLoop(st0, schema.fields, params.search)
                         ELSE st0
               IN /\ countOpts' = st.countOpts
                  /\ findAllOpts' = st.findAllOpts
                  /\ log' = st.log
                  /\ hookCalls' = st.calls
                  /\ getIncludesArgs' = <<fieldNamesRequested, fieldNamesRequested>>
                  /\ queryScope' = IF Truthy(segmentScope)
                                   THEN segmentScope ELSE "unscoped"
                  /\ countState' = [countState EXCEPT !.status = "pending"]
                  /\ findAllState' = [findAllState EXCEPT !.status = "pending"]
                  /\ pc' = "querying"
                  /\ error' = error
  /\ UNCHANGED <<varsSB, varsGV, params, schema, model, fieldNamesRequested, segmentScope,
                 segmentWhere, result>>

\* the chain's position once a query has settled
afterSettle(c, f) ==
  IF pc # "querying" THEN pc
  ELSE IF PAll(c, f) = "resolved" THEN "joined"
  ELSE IF PAll(c, f) = "rejected" THEN "rejected"
  ELSE "querying"

\* count(countOpts) settles
CountSettles ==
  /\ countState.status = "pending"
  /\ \/ \E n \in 0..MaxCount :
          countState' = [status |-> "ok", count |-> n, error |-> Undefined]
     \/ countState' = [status |-> "failed", count |-> 0, error |-> "countError"]
  /\ pc' = afterSettle(countState', findAllState)
  /\ error' = IF pc = "querying" /\ countState'.status = "failed"
              THEN countState'.error ELSE error
  /\ UNCHANGED <<varsSB, varsGV, params, schema, model, fieldNamesRequested, fields,
                 associations, segmentScope, segmentWhere, countOpts,
                 findAllOpts, queryScope, getIncludesArgs, findAllState,
                 result, log, hookCalls>>

\* findAll(findAllOpts) settles
FindAllSettles ==
  /\ findAllState.status = "pending"
  /\ \/ \E n \in 0..MaxRecords :
          findAllState' = [status |-> "ok", records |-> dbRecords(n, model),
                           error |-> Undefined]
     \/ findAllState' = [status |-> "failed", records |-> <<>>,
                         error |-> "findAllError"]
  /\ pc' = afterSettle(countState, findAllState')
  /\ error' = IF pc = "querying" /\ findAllState'.status = "failed"
              THEN findAllState'.error ELSE error
  /\ UNCHANGED <<varsSB, varsGV, params, schema, model, fieldNamesRequested, fields,
                 associations, segmentScope, segmentWhere, countOpts,
                 findAllOpts, queryScope, getIncludesArgs, countState,
                 result, log, hookCalls>>

\* the spread callback (lines 193-202)
Spread ==
  /\ pc = "joined"
  /\ result' = [set |-> TRUE, count |-> countState.count,
                records |-> attachComposite(schema, findAllState.records)]
  /\ pc' = "resolved"
  /\ UNCHANGED <<varsSB, varsGV, params, schema, model, fieldNamesRequested, fields,
                 associations, segmentScope, segmentWhere, countOpts,
                 findAllOpts, queryScope, getIncludesArgs, countState,
                 findAllState, error, log, hookCalls>>


\* ------------------------------------------------------------------------
\* ResourcesGetter: properties
\* ------------------------------------------------------------------------
issued == countState.status # "idle" \/ findAllState.status # "idle"

segmentIsFunction ==
  /\ ~getSegment(schema, params).threw
  /\ getSegment(schema, params).where.kind = "function"

noFunctionIn(where) ==
  \A j \in 1..Len(where.and) : where.and[j].seg.kind # "function"

\* C1: when the selected segment's where-condition is a function, no query
\* is issued before its promise has resolved, and the where-clause handed to
\* count and to findAll holds the resolved value, never the function, in $and.
C1_SegmentFunctionResolvedFirst ==
  segmentIsFunction =>
    /\ pc \in {"constructed", "awaitSegment"} => ~issued
    /\ issued =>
         /\ segmentWhere \in ResolvedWheres
         /\ includes(countOpts.where.and, segmentCondition(segmentWhere))
         /\ includes(findAllOpts.where.and, segmentCondition(segmentWhere))
         /\ noFunctionIn(countOpts.where)
         /\ noFunctionIn(findAllOpts.where)

C1_Witness ==
  /\ segmentIsFunction
  /\ countState.status = "pending"
  /\ findAllState.status = "pending"
  /\ includes(countOpts.where.and, segmentCondition([kind |-> "value", id |-> "w2"]))

\* C2: the options handed to count and to findAll have equal `where` and
\* equal `include`, whatever the custom search hooks do.
C2_CountAndFindAllAgree ==
  issued =>
    /\ countOpts.where = findAllOpts.where
    /\ countOpts.include = findAllOpts.include

\* number of comma-separated values of a raw value string
valueCount(values) ==
  Cardinality({ j \in 1..Len(values) : values[j] = "," }) + 1

filterClauses(where) == SelectSeq(where.and, LAMBDA e : e.kind = "filter")

conditionsKeyed(clause, key) ==
  Cardinality({ j \in 1..Len(clause.conds) : clause.conds[j].key = key })

\* C3: the filter condition holds exactly one elementary condition per
\* comma-separated value of each filter key, under $<filterType> when a
\* filter mode is given and as an unqualified list when none is given.
C3_OneConditionPerValue ==
  (issued /\ params.filter # NoFilter) =>
    /\ Len(filterClauses(countOpts.where)) = 1
    /\ LET clause == filterClauses(countOpts.where)[1] IN
         /\ Truthy(params.filterType) => clause.comb = "$" \o params.filterType
         /\ \A e \in 1..Len(params.filter) :
              conditionsKeyed(clause, filterKey(params.filter[e].key))
                = valueCount(params.filter[e].values)

\* the filter entries whose key is "<association>:<field>"
associationEntries ==
  IF params.filter = NoFilter THEN {}
  ELSE { e \in 1..Len(params.filter) : includes(params.filter[e].key, ":") }

joinedKey(key) ==
  LET parts == split(key, ":")
  IN <<"$">> \o parts[1] \o <<".">> \o parts[2] \o <<"$">>

associationOf(key) == split(key, ":")[1]

conditionsRekeyed ==
  \A e \in associationEntries :
    LET built == entryConditions(params.filter[e], params.timezone) IN
      /\ Len(built) = valueCount(params.filter[e].values)
      /\ \A j \in 1..Len(built) : built[j].key = joinedKey(params.filter[e].key)
      /\ Truthy(params.filterType) =>
           /\ conditionsKeyed(filterClauses(countOpts.where)[1],
                              joinedKey(params.filter[e].key)) = Len(built)
           /\ conditionsKeyed(filterClauses(findAllOpts.where)[1],
                              joinedKey(params.filter[e].key)) = Len(built)

associationsHanded ==
  \A e \in associationEntries :
    /\ Len(getIncludesArgs) = 2
    /\ \A c \in 1..Len(getIncludesArgs) :
         /\ getIncludesArgs[c] # NullList
         /\ includes(getIncludesArgs[c], associationOf(params.filter[e].key))

\* C4 as stated: for every filter key "<association>:<field>" the conditions
\* are keyed "$<association>.<field>$" and <association> is in the field-name
\* list handed to getIncludes for both the count and the list options.
C4_AssociationAlwaysHanded ==
  issued => (conditionsRekeyed /\ associationsHanded)

\* C4 amended: the same, when the request names fields for the model; with
\* no requested fields getIncludes is handed null.
C4_AssociationHandedWhenFieldsRequested ==
  issued =>
    /\ conditionsRekeyed
    /\ TruthyStr(params.fields) => associationsHanded
    /\ ~TruthyStr(params.fields) =>
         \A c \in 1..Len(getIncludesArgs) : getIncludesArgs[c] = NullList

C4_Witness ==
  /\ issued
  /\ associationEntries # {}
  /\ params.fields = <<"t">>
  /\ Truthy(params.filterType)
  /\ includes(getIncludesArgs[1], <<"a">>)
  /\ includes(getIncludesArgs[2], <<"a">>)

\* C5: every record of the result carries forestCompositePrimary if and only
\* if the model declares more than one primary key.
C5_CompositeIffSeveralKeys ==
  pc = "resolved" =>
    /\ schema.isCompositePrimary = (Len(model.primaryKeys) > 1)
    /\ \A j \in 1..Len(result.records) :
         (result.records[j].forestCompositePrimary # <<>>)
           <=> (Len(model.primaryKeys) > 1)

C5_Witness ==
  /\ pc = "resolved"
  /\ Len(model.primaryKeys) > 1
  /\ Len(result.records) > 0
  /\ \A j \in 1..Len(result.records) :
       result.records[j].forestCompositePrimary = result.records[j].pk

hookFailed(field) ==
  \E j \in 1..Len(log) :
    /\ log[j].level = "error"
    /\ log[j].names = <<field>>

hookInvoked(field) ==
  \E j \in 1..Len(hookCalls) : hookCalls[j].field = field

someHookThrew == \E j \in 1..Len(log) : log[j].level = "error"

\* C6: when a search term is present and a field's search hook throws, the
\* failure is logged, the hooks of the other fields are still invoked, count
\* and findAll are still issued, and perform resolves to [count, records]
\* (it rejects only if a query fails).
C6_HookFailureIsolated ==
  /\ (issued /\ Truthy(params.search)) =>
       \A f \in 1..Len(schema.fields) :
         /\ schema.fields[f].search # "none" => hookInvoked(schema.fields[f].field)
         /\ hookThrows(schema.fields[f]) => hookFailed(schema.fields[f].field)
  /\ someHookThrew =>
       /\ Truthy(params.search)
       /\ countState.status # "idle"
       /\ findAllState.status # "idle"
       /\ pc \in {"querying", "joined", "resolved", "rejected"}
       /\ pc = "rejected" =>
            (countState.status = "failed" \/ findAllState.status = "failed")
       /\ pc = "resolved" =>
            /\ result.set
            /\ result.count = countState.count
            /\ Len(result.records) = Len(findAllState.records)

C6_Witness ==
  /\ pc = "resolved"
  /\ result.set
  /\ hookFailed(<<"t">>)
  /\ hookInvoked(<<"v">>)
  /\ ~hookFailed(<<"v">>)

segmentUnknown ==
  /\ schema.segments # NoSegments
  /\ Truthy(params.segment)
  /\ ~segmentDefined(schema, params)

\* C9: a segment's scope and where-condition are adopted only for a segment
\* the schema defines; for a requested segment the schema does not define,
\* perform adopts nothing, queries unscoped and does not fail.
C9_UnknownSegmentIgnored ==
  /\ (segmentScope # Undefined \/ segmentWhere # NoWhere) =>
       (Truthy(params.segment) /\ segmentDefined(schema, params))
  /\ segmentUnknown =>
       /\ pc # "thrown"
       /\ issued => queryScope = "unscoped"

\* C10: count and findAll are issued together; the result is produced only
\* after both have succeeded; if either fails perform rejects with that
\* query's error and delivers no result.
C10_JoinBeforeResult ==
  /\ (countState.status = "idle") <=> (findAllState.status = "idle")
  /\ (pc \in {"joined", "resolved"} \/ result.set) =>
       (countState.status = "ok" /\ findAllState.status = "ok")
  /\ (countState.status = "failed" \/ findAllState.status = "failed") =>
       /\ pc = "rejected"
       /\ ~result.set
       /\ \/ countState.status = "failed" /\ error = countState.error
          \/ findAllState.status = "failed" /\ error = findAllState.error
  /\ result.set =>
       /\ result.count = countState.count
       /\ Len(result.records) = Len(findAllState.records)

C10_Witness ==
  /\ pc = "resolved"
  /\ result.set
  /\ result.count = MaxCount
  /\ Len(result.records) = MaxRecords

\* ------------------------------------------------------------------------
\* Schema builder: functions (lines 213-411)
\* ------------------------------------------------------------------------
\* A column type is the chain of its DataTypes classes, outermost first:
\* <<"ARRAY", "INTEGER">> is an ARRAY whose .type is an INTEGER.
\* A semantic type is a tag wrapped `dims` times in a one-element array.
RECURSIVE getTypeFor(_)
getTypeFor(type) ==
  LET cls == Head(type) IN
  IF cls \in {"STRING", "TEXT", "UUID", "citext"} THEN [tag |-> "String", dims |-> 0]
  ELSE IF cls = "ENUM" THEN [tag |-> "Enum", dims |-> 0]
  ELSE IF cls = "BOOLEAN" THEN [tag |-> "Boolean", dims |-> 0]
  ELSE IF cls = "DATEONLY" THEN [tag |-> "Dateonly", dims |-> 0]
  ELSE IF cls = "DATE" THEN [tag |-> "Date", dims |-> 0]
  ELSE IF cls \in {"INTEGER", "FLOAT", "DOUBLE PRECISION", "BIGINT", "DECIMAL"}
       THEN [tag |-> "Number", dims |-> 0]
  ELSE IF cls \in {"JSONB", "JSON"} THEN [tag |-> "Json", dims |-> 0]
  ELSE IF cls = "TIME" THEN [tag |-> "Time", dims |-> 0]
  ELSE IF Len(type) > 1
       THEN [getTypeFor(Tail(type)) EXCEPT !.dims = @ + 1]
  ELSE [tag |-> Undefined, dims |-> 0]

\* association.targetType: the type of target.attributes[targetKey], <<>> if
\* the target has no such attribute
getTypeForAssociation(association) ==
  LET type == IF association.targetType # <<>>
              THEN getTypeFor(association.targetType)
              ELSE [tag |-> "Number", dims |-> 0]
  IN IF association.associationType \in {"BelongsTo", "HasOne"} THEN type
     ELSE IF association.associationType \in {"HasMany", "BelongsToMany"}
     THEN [type EXCEPT !.dims = @ + 1]
     ELSE [tag |-> Undefined, dims |-> 0]

\* A constraint of column.validate is absent, a plain value (a scalar or an
\* array) or an object {args: [...], msg}.  items holds the scalar alone or
\* the array's elements.
Absent == [shape |-> "absent", isArray |-> FALSE, items |-> <<>>, msg |-> Undefined]

\* JavaScript truthiness of column.validate.<rule>
ruleTruthy(rule) ==
  /\ rule.shape # "absent"
  /\ (rule.shape = "plain" /\ ~rule.isArray) => rule.items[1] # 0

\* rule.args || rule
ruleValue(rule) ==
  IF rule.shape = "args" THEN [isArray |-> TRUE, items |-> rule.items]
  ELSE [isArray |-> rule.isArray, items |-> rule.items]

scalar(n) == [isArray |-> FALSE, items |-> <<n>>]

simpleRule(type, rule) ==
  IF ruleTruthy(rule)
  THEN <<[type |-> type, value |-> ruleValue(rule), message |-> rule.msg]>>
  ELSE <<>>

\* length[0] && length[1] (line 311)
bothBounds(length) ==
  /\ length.isArray
  /\ Len(length.items) >= 2
  /\ length.items[1] # 0
  /\ length.items[2] # 0

\* lines 308-330
lengthRules(rule) ==
  IF ~ruleTruthy(rule) THEN <<>>
  ELSE LET length == ruleValue(rule) IN
       IF bothBounds(length)
       THEN <<[type |-> "is longer than", value |-> scalar(length.items[1]),
               message |-> rule.msg],
              [type |-> "is shorter than", value |-> scalar(length.items[2]),
               message |-> rule.msg]>>
       ELSE <<[type |-> "is longer than", value |-> length,
               message |-> rule.msg]>>

\* lines 340-348: an array `is` is skipped; value.toString() yields a string
\* (never an array) spelling the value's items
likeRules(rule) ==
  IF ruleTruthy(rule) /\ ~(rule.shape = "plain" /\ rule.isArray)
  THEN <<[type |-> "is like",
          value |-> [isArray |-> FALSE, items |-> ruleValue(rule).items],
          message |-> rule.msg]>>
  ELSE <<>>

getValidations(column) ==
  IF column.autoGenerated THEN <<>>
  ELSE LET presence == IF ~column.allowNull
                       THEN <<[type |-> "is present", value |-> scalar(0),
                               message |-> Undefined]>>
                       ELSE <<>>
       IN IF ~column.hasValidate THEN presence
          ELSE presence
               \o simpleRule("is greater than", column.validate.min)
               \o simpleRule("is less than", column.validate.max)
               \o simpleRule("is before", column.validate.isBefore)
               \o simpleRule("is after", column.validate.isAfter)
               \o lengthRules(column.validate.len)
               \o simpleRule("contains", column.validate.contains)
               \o likeRules(column.validate.is)

getIsRequired(column) == ~column.autoGenerated /\ ~column.allowNull

\* lines 357-392; an absent key holds Undefined / FALSE / <<>>
getSchemaForColumn(column, primaryKeys) ==
  [kind |-> "column",
   field |-> column.fieldName,
   type |-> getTypeFor(column.type),
   columnName |-> column.field,
   primaryKey |-> column.primaryKey,
   enums |-> IF getTypeFor(column.type) = [tag |-> "Enum", dims |-> 0]
             THEN column.values ELSE <<>>,
   isRequired |-> getIsRequired(column),
   defaultValue |-> IF column.defaultValue # Undefined
                       /\ ~includes(primaryKeys, column.fieldName)
                    THEN column.defaultValue ELSE Undefined,
   validations |-> getValidations(column),
   reference |-> Undefined]

\* lines 394-411 (the field schema; the exclusion is in excludedBy)
getSchemaForAssociation(association) ==
  [kind |-> "association",
   field |-> association.associationAccessor,
   type |-> getTypeForAssociation(association),
   columnName |-> Undefined,
   primaryKey |-> FALSE,
   enums |-> <<>>,
   isRequired |-> FALSE,
   defaultValue |-> Undefined,
   validations |-> <<>>,
   reference |-> association.targetName \o "." \o association.foreignKey]

\* lines 406-408
excludedBy(association) ==
  IF association.associationType = "BelongsTo"
  THEN <<association.identifierField>> ELSE <<>>

\* line 416
skipColumn(column) == column.references /\ ~column.primaryKey
\* the exclusion matching the attribute name instead of the column name
removeExcluded_ByFieldName(flds, exclude) ==
  SelectSeq(flds, LAMBDA f : ~(includes(exclude, f.field) /\ ~f.primaryKey))

\* lines 448-451
removeExcluded(flds, exclude) ==
  SelectSeq(flds, LAMBDA f : ~(includes(exclude, f.columnName) /\ ~f.primaryKey))

\* _.keys(model.primaryKeys)
primaryKeysOf(attributes) ==
  LET pks == SelectSeq(attributes, LAMBDA c : c.primaryKey)
  IN [j \in 1..Len(pks) |-> pks[j].fieldName]

\* lines 439-459
buildSchema(mdl, flds, exclude) ==
  LET primaryKeys == primaryKeysOf(mdl.attributes) IN
  [name |-> mdl.name,
   idField |-> IF isCompositePrimaryOf(primaryKeys) THEN "forestCompositePrimary"
               ELSE IF primaryKeys = <<>> THEN Undefined
               ELSE primaryKeys[1],
   primaryKeys |-> primaryKeys,
   isCompositePrimary |-> isCompositePrimaryOf(primaryKeys),
   fields |-> removeExcluded(flds, exclude)]

\* ------------------------------------------------------------------------
\* Schema builder: inputs
\* ------------------------------------------------------------------------
NoValidate ==
  [min |-> Absent, max |-> Absent, isBefore |-> Absent, isAfter |-> Absent,
   len |-> Absent, contains |-> Absent, is |-> Absent]

plain(n) == [shape |-> "plain", isArray |-> FALSE, items |-> <<n>>, msg |-> Undefined]
plainPair(a, b) == [shape |-> "plain", isArray |-> TRUE, items |-> <<a, b>>, msg |-> Undefined]
argsPair(a, b) == [shape |-> "args", isArray |-> TRUE, items |-> <<a, b>>, msg |-> "custom"]
argsOne(a) == [shape |-> "args", isArray |-> TRUE, items |-> <<a>>, msg |-> "custom"]

LenRules ==
  {Absent}
    \cup { plain(n) : n \in 0..MaxLenBound }
    \cup { plainPair(a, b) : a \in 0..MaxLenBound, b \in 0..MaxLenBound }
    \cup { argsPair(a, b) : a \in 0..MaxLenBound, b \in 0..MaxLenBound }

MinRules == { Absent, plain(0), plain(1), argsOne(1) }
MaxRules == { Absent, plain(2) }
OtherRules == { Absent, plain(1) }
IsRules == { Absent, plain(1), plainPair(1, 2) }

\* columns handed to getValidations
ValidatedColumns ==
  { [allowNull |-> an, autoGenerated |-> ag, hasValidate |-> hv,
     validate |-> [min |-> mi, max |-> ma, isBefore |-> ib, isAfter |-> Absent,
                   len |-> le, contains |-> co, is |-> is]] :
      an \in BOOLEAN, ag \in BOOLEAN, hv \in BOOLEAN, mi \in MinRules,
      ma \in MaxRules, ib \in OtherRules, le \in LenRules, co \in OtherRules,
      is \in IsRules }

idColumn(dv) ==
  [fieldName |-> "id", field |-> "id", type |-> <<"INTEGER">>,
   primaryKey |-> TRUE, references |-> FALSE, allowNull |-> FALSE,
   autoGenerated |-> TRUE, defaultValue |-> dv, values |-> <<>>,
   hasValidate |-> FALSE, validate |-> NoValidate]

DataColumns ==
  { [fieldName |-> "title", field |-> "title", type |-> ty,
     primaryKey |-> FALSE, references |-> FALSE, allowNull |-> an,
     autoGenerated |-> FALSE, defaultValue |-> dv,
     values |-> IF ty = <<"ENUM">> THEN <<"x", "y">> ELSE <<>>,
     hasValidate |-> TRUE, validate |-> [NoValidate EXCEPT !.len = le]] :
      ty \in { <<"STRING">>, <<"ENUM">>, <<"ARRAY", "INTEGER">>, <<"GEOMETRY">>, <<>> },
      an \in BOOLEAN, dv \in { Undefined, "d" },
      le \in { Absent, plainPair(1, 2) } }

\* the column behind the BelongsTo association `author`
ForeignKeyColumns ==
  { [fieldName |-> "authorId", field |-> f, type |-> <<"INTEGER">>,
     primaryKey |-> pk, references |-> rf, allowNull |-> TRUE,
     autoGenerated |-> FALSE, defaultValue |-> Undefined, values |-> <<>>,
     hasValidate |-> FALSE, validate |-> NoValidate] :
      f \in { "authorId", "author_id" }, pk \in BOOLEAN, rf \in BOOLEAN }

belongsToAuthor(fk) ==
  [associationAccessor |-> "author", associationType |-> "BelongsTo",
   targetName |-> "User", foreignKey |-> fk.fieldName,
   identifierField |-> fk.field, targetType |-> <<"UUID">>]

hasManyComments ==
  [associationAccessor |-> "comments", associationType |-> "HasMany",
   targetName |-> "Comment", foreignKey |-> "articleId",
   identifierField |-> "articleId", targetType |-> <<>>]

AssociationLists(fk) ==
  { <<>>, <<belongsToAuthor(fk)>>, <<hasManyComments>>,
    <<belongsToAuthor(fk), hasManyComments>>,
    <<hasManyComments, belongsToAuthor(fk)>> }

BuilderModels ==
  UNION { { [name |-> "Article", attributes |-> <<idColumn(dv), dc, fk>>,
             associations |-> as] :
              dv \in { Undefined, "UUIDV4" }, dc \in DataColumns,
              as \in AssociationLists(fk) } :
          fk \in ForeignKeyColumns }

\* ------------------------------------------------------------------------
\* Schema builder: state and operations
\* ------------------------------------------------------------------------
NoSchema ==
  [name |-> Undefined, idField |-> Undefined, primaryKeys |-> <<>>,
   isCompositePrimary |-> FALSE, fields |-> <<>>]

\* getTypeFor reads column.type.type of a column that has no type
columnThrows(column) == column.type = <<>>

InitSB ==
  /\ sbModel \in BuilderModels
  /\ sbFields = <<>>
  /\ fieldNamesToExclude = <<>>
  /\ columnsDone = 0
  /\ associationsDone = 0
  /\ sbLog = <<>>
  /\ sbSchema = NoSchema
  /\ sbPc = "building"

IdleSB ==
  /\ sbModel = [name |-> Undefined, attributes |-> <<>>, associations |-> <<>>]
  /\ sbFields = <<>>
  /\ fieldNamesToExclude = <<>>
  /\ columnsDone = 0
  /\ associationsDone = 0
  /\ sbLog = <<>>
  /\ sbSchema = NoSchema
  /\ sbPc = "idle"

\* one iteration of the column loop (lines 414-423)
ColumnStep ==
  /\ sbPc = "building"
  /\ columnsDone < Len(sbModel.attributes)
  /\ LET column == sbModel.attributes[columnsDone + 1] IN
       IF skipColumn(column)
       THEN UNCHANGED <<sbFields, sbLog>>
       ELSE IF columnThrows(column)
       THEN /\ sbLog' = Append(sbLog, column.field)
            /\ UNCHANGED sbFields
       ELSE /\ sbFields' = Append(sbFields,
                 getSchemaForColumn(column, primaryKeysOf(sbModel.attributes)))
            /\ UNCHANGED sbLog
  /\ columnsDone' = columnsDone + 1
  /\ UNCHANGED <<varsRG, varsGV, sbModel, fieldNamesToExclude, associationsDone,
                 sbSchema, sbPc>>

\* one iteration of the association loop (lines 427-435)
AssociationStep ==
  /\ sbPc = "building"
  /\ associationsDone < Len(sbModel.associations)
  /\ LET association == sbModel.associations[associationsDone + 1] IN
       /\ fieldNamesToExclude' = fieldNamesToExclude \o excludedBy(association)
       /\ sbFields' = Append(sbFields, getSchemaForAssociation(association))
  /\ associationsDone' = associationsDone + 1
  /\ UNCHANGED <<varsRG, varsGV, sbModel, columnsDone, sbLog, sbSchema, sbPc>>

\* P.all([columns, associations]).then(...) (lines 437-460)
BuildSchema ==
  /\ sbPc = "building"
  /\ columnsDone = Len(sbModel.attributes)
  /\ associationsDone = Len(sbModel.associations)
  /\ sbSchema' = buildSchema(sbModel, sbFields, fieldNamesToExclude)
  /\ sbFields' = sbSchema'.fields
  /\ sbPc' = "done"
  /\ UNCHANGED <<varsRG, varsGV, sbModel, fieldNamesToExclude, columnsDone,
                 associationsDone, sbLog>>

\* ------------------------------------------------------------------------
\* getValidations applied to one column
\* ------------------------------------------------------------------------
InitGV ==
  /\ gvColumn \in ValidatedColumns
  /\ gvValidations = <<>>
  /\ gvPc = "called"

IdleGV ==
  /\ gvColumn = [allowNull |-> TRUE, autoGenerated |-> FALSE,
                 hasValidate |-> FALSE, validate |-> NoValidate]
  /\ gvValidations = <<>>
  /\ gvPc = "idle"

GetValidations ==
  /\ gvPc = "called"
  /\ gvValidations' = getValidations(gvColumn)
  /\ gvPc' = "returned"
  /\ UNCHANGED <<varsRG, varsSB, gvColumn>>


\* ------------------------------------------------------------------------
\* Schema builder: properties
\* ------------------------------------------------------------------------
lengthEntries ==
  SelectSeq(gvValidations,
            LAMBDA v : v.type \in {"is longer than", "is shorter than"})

lenRule == gvColumn.validate.len

\* C7: for a non-autogenerated column, a length constraint [min, max] yields
\* exactly two length entries, 'is longer than' min and 'is shorter than'
\* max, for every min and max including 0; a bare scalar yields exactly one
\* entry, 'is longer than' that scalar.
C7_LengthEntries ==
  (gvPc = "returned" /\ ~gvColumn.autoGenerated /\ gvColumn.hasValidate) =>
    /\ (lenRule.shape # "absent" /\ lenRule.isArray) =>
         lengthEntries =
           <<[type |-> "is longer than", value |-> scalar(lenRule.items[1]),
              message |-> lenRule.msg],
             [type |-> "is shorter than", value |-> scalar(lenRule.items[2]),
              message |-> lenRule.msg]>>
    /\ (lenRule.shape = "plain" /\ ~lenRule.isArray) =>
         lengthEntries =
           <<[type |-> "is longer than", value |-> scalar(lenRule.items[1]),
              message |-> lenRule.msg]>>

columnSchemasFor(column) ==
  { j \in 1..Len(sbSchema.fields) :
      /\ sbSchema.fields[j].kind = "column"
      /\ sbSchema.fields[j].columnName = column.field
      /\ sbSchema.fields[j].field = column.fieldName }

associationSchemasFor(association) ==
  { j \in 1..Len(sbSchema.fields) :
      /\ sbSchema.fields[j].kind = "association"
      /\ sbSchema.fields[j].field = association.associationAccessor }

foreignKeyPairs ==
  { <<a, c>> \in (1..Len(sbModel.associations)) \X (1..Len(sbModel.attributes)) :
      /\ sbModel.associations[a].associationType = "BelongsTo"
      /\ sbModel.attributes[c].field = sbModel.associations[a].identifierField }

IdleRG ==
  /\ params = [fields |-> NullStr, filter |-> NoFilter, filterType |-> Undefined,
               search |-> Undefined, sort |-> NullStr, segment |-> Undefined,
               timezone |-> "tz", offset |-> 0, limit |-> 10]
  /\ model = [name |-> "Article", primaryKeys |-> <<<<"i">>>>,
              associations |-> ModelAssociations]
  /\ schema = [fields |-> <<>>, segments |-> NoSegments,
               searchFields |-> NullList, primaryKeys |-> model.primaryKeys,
               isCompositePrimary |-> FALSE]
  /\ fieldNamesRequested = NullList
  /\ fields = <<>>
  /\ associations = <<>>
  /\ segmentScope = Undefined
  /\ segmentWhere = NoWhere
  /\ pc = "idle"
  /\ countOpts = NoOpts
  /\ findAllOpts = NoOpts
  /\ queryScope = Undefined
  /\ getIncludesArgs = <<>>
  /\ countState = IdleCount
  /\ findAllState = IdleFindAll
  /\ result = NoResult
  /\ error = Undefined
  /\ log = <<>>
  /\ hookCalls = <<>>

\* one list request served by a ResourcesGetter
Init == InitRG /\ IdleSB /\ IdleGV

Next ==
  \/ Perform
  \/ SegmentResolved
  \/ SegmentRejected
  \/ GetAndCountRecords
  \/ CountSettles
  \/ FindAllSettles
  \/ Spread

Spec == Init /\ [][Next]_vars

\* one model handed to the schema builder
InitSchema == IdleRG /\ InitSB /\ IdleGV

NextSchema ==
  \/ ColumnStep
  \/ AssociationStep
  \/ BuildSchema

SpecSchema == InitSchema /\ [][NextSchema]_vars

\* one column handed to getValidations
InitValidations == IdleRG /\ IdleSB /\ InitGV

NextValidations == GetValidations

SpecValidations == InitValidations /\ [][NextValidations]_vars

====
